---- MODULE Spec2Model ----
(***************************************************************************)
(* A model of transcribe.py: the pure function format_timestamp and the    *)
(* pipeline main -> transcribe_to_srt -> split_audio / transcribe_file.    *)
(*                                                                         *)
(* Time values are Python floats (seconds).  They are modelled as exact    *)
(* rationals with a resolution of a quarter of a millisecond: a time is a  *)
(* natural number of ticks, TicksPerSec ticks to the second.  File sizes   *)
(* are bytes.  Strings built by the code are sequences of one-character    *)
(* strings, so that formatting is something a check can take apart again.  *)
(***************************************************************************)
EXTENDS Integers, Sequences, FiniteSets, TLC

(* ------------------------------------------------------------------ *)
(* Resolution of the time values                                       *)
(* ------------------------------------------------------------------ *)
TicksPerMs == 2 * 2
TicksPerSec == 1000 * TicksPerMs

(* ------------------------------------------------------------------ *)
(* Python's formatting and rounding primitives                         *)
(* ------------------------------------------------------------------ *)
DigitChar == <<"0", "1", "2", "3", "4", "5", "6", "7", "8", "9">>

RECURSIVE Digits(_)
\* str(n) for a natural number n: its decimal digits, most significant first.
Digits(n) ==
    IF n < 10 THEN <<DigitChar[n + 1]>>
    ELSE Digits(n \div 10) \o <<DigitChar[(n % 10) + 1]>>

\* f"{n:0wd}": at least w characters, padded on the left with zeros; a
\* wider number is printed in full.
ZeroPad(n, w) ==
    LET d == Digits(n)
    IN  IF Len(d) >= w THEN d
        ELSE [k \in 1..(w - Len(d)) |-> "0"] \o d

\* A plausible slip: the nearest whole number with ties rounded up.
PyRoundHalfUp(n, d) ==
    LET q == n \div d
        r == n % d
    IN  IF 2 * r >= d THEN q + 1 ELSE q

\* Python 3 round(n / d) for n >= 0, d > 0: the nearest whole number, a tie
\* going to the even neighbour.
PyRound(n, d) ==
    LET q == n \div d
        r == n % d
    IN  IF 2 * r < d THEN q
        ELSE IF 2 * r > d THEN q + 1
        ELSE IF q % 2 = 0 THEN q ELSE q + 1

(* ------------------------------------------------------------------ *)
(* format_timestamp                                                    *)
(* ------------------------------------------------------------------ *)
\* The four numeric fields computed on lines 24-27, t in ticks.
TsHours(t) == t \div (3600 * TicksPerSec)
TsMinutes(t) == (t % (3600 * TicksPerSec)) \div (60 * TicksPerSec)
TsSecs(t) == (t % (60 * TicksPerSec)) \div TicksPerSec
TsMillis(t) == PyRound(t % TicksPerSec, TicksPerMs)

\* The returned string f"{hours:02d}:{minutes:02d}:{secs:02d},{millis:03d}".
format_timestamp(t) ==
    ZeroPad(TsHours(t), 2) \o <<":">> \o ZeroPad(TsMinutes(t), 2) \o <<":">>
        \o ZeroPad(TsSecs(t), 2) \o <<",">> \o ZeroPad(TsMillis(t), 3)

(* ------------------------------------------------------------------ *)
(* Program constants and bounds of the model                           *)
(* ------------------------------------------------------------------ *)
MAX_FILE_SIZE == 24 * 1024 * 1024

\* Longest audio considered, in half seconds.
MaxDurHalfSecs == 5
\* Most segments the transcription service returns for one upload.
MaxSegs == 2
\* Cap on the iterations of the splitting loop, to keep the state space
\* finite.  A loop whose cursor advances by at least one second per
\* iteration ends before the cap; the cap is reached only by a loop whose
\* cursor does not advance, which in the program goes on without end.
MaxChunks == (MaxDurHalfSecs \div 2) + 2

Durations == {k * (TicksPerSec \div 2) : k \in 0..MaxDurHalfSecs}
Sizes == {MAX_FILE_SIZE, MAX_FILE_SIZE + 1, 2 * MAX_FILE_SIZE, 3 * MAX_FILE_SIZE}

\* Inputs of format_timestamp: every quarter millisecond of the second, at
\* a few hours, minutes and seconds (3725.4 s is 1 h 2 min 5.4 s).
FmtHours == {0, 1, 99, 100}
FmtMinutes == {0, 2, 59}
FmtSecs == {0, 5, 59}
FmtInputs ==
    {((h * 3600 + m * 60 + s) * TicksPerSec) + f :
        h \in FmtHours, m \in FmtMinutes, s \in FmtSecs, f \in 0..(TicksPerSec - 1)}

VARIABLES
    pc,             \* position of the run
    inputExists,    \* os.path.isfile(args.video)
    toolsPresent,   \* shutil.which finds both ffmpeg and ffprobe
    isAudio,        \* the input's extension is in AUDIO_EXTENSIONS
    audioBytes,     \* size of the audio file on disk, in bytes
    audioLen,       \* duration of the audio, in ticks
    exitCode,       \* exit status of the process, "none" while undecided
    stderr,         \* last diagnostic written to standard error
    tmpdir,         \* "none", "exists" or "removed"
    tmpFiles,       \* files inside the scratch directory
    audio_size, total_duration, chunk_duration,
    start, chunks,  \* cursor and result list of split_audio
    i,              \* number of chunks transcribed so far
    all_segments,
    raw,            \* the responses of the service, one per upload, as returned
    srt_content,
    outFile,        \* "absent", "partial" or "written"
    outContent,     \* what the output file holds
    procCalls,      \* ffmpeg / ffprobe invocations made
    apiCalls,       \* transcription requests made
    failed,         \* an ffmpeg, ffprobe or transcription call has failed
    seconds,        \* argument of the format_timestamp call under study
    timestamp       \* its result

vars == <<pc, inputExists, toolsPresent, isAudio, audioBytes, audioLen, exitCode,
          stderr, tmpdir, tmpFiles, audio_size, total_duration, chunk_duration,
          start, chunks, i, all_segments, raw, srt_content, outFile, outContent,
          procCalls, apiCalls, failed, seconds, timestamp>>

envVars == <<inputExists, toolsPresent, isAudio, audioBytes, audioLen>>
fmtVars == <<seconds, timestamp>>
splitVars == <<audio_size, total_duration, chunk_duration, start, chunks>>
segVars == <<i, all_segments, raw>>
outVars == <<srt_content, outFile, outContent>>

(* ------------------------------------------------------------------ *)
(* Strings                                                             *)
(* ------------------------------------------------------------------ *)
IsSpace(c) == c = " "

RECURSIVE LStrip(_)
LStrip(s) == IF s # <<>> /\ IsSpace(Head(s)) THEN LStrip(Tail(s)) ELSE s

RECURSIVE RStrip(_)
RStrip(s) ==
    IF s # <<>> /\ IsSpace(s[Len(s)]) THEN RStrip(SubSeq(s, 1, Len(s) - 1)) ELSE s

\* str.strip()
Strip(s) == RStrip(LStrip(s))

RECURSIVE Join(_, _)
\* sep.join(parts)
Join(parts, sep) ==
    IF parts = <<>> THEN <<>>
    ELSE IF Len(parts) = 1 THEN parts[1]
    ELSE parts[1] \o sep \o Join(Tail(parts), sep)

(* ------------------------------------------------------------------ *)
(* The transcription service                                           *)
(* ------------------------------------------------------------------ *)
TextA == <<" ", "C", "i", "a", "o">>
TextB == <<"c", "o", "m", "e", " ", "s", "t", "a", "i", " ">>

\* Segments the service may report for an upload of length len (ticks):
\* times are relative to the upload and lie within it, start <= end.
SegShapes(len) ==
    { [start |-> 0, end |-> 0, text |-> TextA],
      [start |-> 0, end |-> len, text |-> TextB],
      [start |-> len, end |-> len, text |-> TextA] }

\* A response: at most MaxSegs segments in source order.
Responses(len) ==
    UNION { { r \in [1..n -> SegShapes(len)] :
                \A k \in 1..(n - 1) : r[k].start <= r[k + 1].start } : n \in 0..MaxSegs }

(* ------------------------------------------------------------------ *)
(* Initial states                                                      *)
(* ------------------------------------------------------------------ *)
Idle ==
    /\ exitCode = "none" /\ stderr = "" /\ tmpdir = "none" /\ tmpFiles = {}
    /\ audio_size = 0 /\ total_duration = 0 /\ chunk_duration = 0
    /\ start = 0 /\ chunks = <<>> /\ i = 0 /\ all_segments = <<>> /\ raw = <<>>
    /\ srt_content = <<>> /\ outFile = "absent" /\ outContent = <<>>
    /\ procCalls = 0 /\ apiCalls = 0 /\ failed = FALSE

\* One invocation of the command line tool on one input.
Init ==
    /\ pc = "main"
    /\ inputExists \in BOOLEAN /\ toolsPresent \in BOOLEAN /\ isAudio \in BOOLEAN
    /\ audioBytes \in Sizes /\ audioLen \in Durations
    /\ Idle
    /\ seconds = 0 /\ timestamp = <<>>

(* ------------------------------------------------------------------ *)
(* Leaving the try block of transcribe_to_srt                          *)
(* ------------------------------------------------------------------ *)
\* A plausible slip: the exception ends the process past the cleanup.
RaiseNoFinally(msg) ==
    /\ pc' = "exit"
    /\ exitCode' = 1
    /\ stderr' = msg

\* An exception (or SystemExit) raised inside the try block: control goes
\* to the finally clause, the process will end with status 1.
Raise(msg) ==
    /\ pc' = "finally"
    /\ exitCode' = 1
    /\ stderr' = msg

(* ------------------------------------------------------------------ *)
(* main and the entry of transcribe_to_srt                             *)
(* ------------------------------------------------------------------ *)
\* main: the input must be an existing file.
CheckInput ==
    /\ pc = "main"
    /\ IF ~inputExists
       THEN /\ pc' = "exit" /\ exitCode' = 1 /\ stderr' = "file not found"
       ELSE /\ pc' = "check_tools" /\ UNCHANGED <<exitCode, stderr>>
    /\ UNCHANGED <<envVars, tmpdir, tmpFiles, splitVars, segVars, outVars,
                   procCalls, apiCalls, failed, fmtVars>>

\* A plausible slip: the check of the tools is left out.
CheckToolsSkipped ==
    /\ pc = "check_tools"
    /\ pc' = "setup"
    /\ UNCHANGED <<envVars, exitCode, stderr, tmpdir, tmpFiles, splitVars, segVars,
                   outVars, procCalls, apiCalls, failed, fmtVars>>

\* transcribe_to_srt, entry: both external tools must be on the PATH.
CheckTools ==
    /\ pc = "check_tools"
    /\ IF ~toolsPresent
       THEN /\ pc' = "exit" /\ exitCode' = 1 /\ stderr' = "ffmpeg and ffprobe are required"
       ELSE /\ pc' = "setup" /\ UNCHANGED <<exitCode, stderr>>
    /\ UNCHANGED <<envVars, tmpdir, tmpFiles, splitVars, segVars, outVars,
                   procCalls, apiCalls, failed, fmtVars>>

\* Groq() and tempfile.mkdtemp(), both outside the try block: if either
\* raises, the process ends and no scratch directory exists.
Setup ==
    /\ pc = "setup"
    /\ \E ok \in BOOLEAN :
        IF ok
        THEN /\ tmpdir' = "exists" /\ pc' = "normalize"
             /\ UNCHANGED <<exitCode, stderr>>
        ELSE /\ pc' = "exit" /\ exitCode' = 1 /\ stderr' = "traceback"
             /\ UNCHANGED tmpdir
    /\ UNCHANGED <<envVars, tmpFiles, splitVars, segVars, outVars,
                   procCalls, apiCalls, failed, fmtVars>>

\* Step 1: an audio input is used as it is, anything else goes through
\* extract_audio (one ffmpeg run writing audio.mp3 into the scratch
\* directory; a failing run may leave a partial file behind).
Normalize ==
    /\ pc = "normalize"
    /\ IF isAudio
       THEN /\ pc' = "measure"
            /\ UNCHANGED <<exitCode, stderr, tmpFiles, procCalls, failed>>
       ELSE /\ procCalls' = procCalls + 1
            /\ \E result \in {"ok", "fails", "fails leaving a file"} :
                IF result = "ok"
                THEN /\ tmpFiles' = tmpFiles \cup {<<"audio.mp3">>}
                     /\ pc' = "measure"
                     /\ UNCHANGED <<exitCode, stderr, failed>>
                ELSE /\ tmpFiles' = IF result = "fails" THEN tmpFiles
                                    ELSE tmpFiles \cup {<<"audio.mp3">>}
                     /\ failed' = TRUE
                     /\ Raise("traceback")
    /\ UNCHANGED <<envVars, tmpdir, splitVars, segVars, outVars, apiCalls, fmtVars>>

\* os.path.getsize and the branch of step 2.
Measure ==
    /\ pc = "measure"
    /\ audio_size' = audioBytes
    /\ pc' = IF audioBytes <= MAX_FILE_SIZE THEN "direct" ELSE "probe"
    /\ UNCHANGED <<envVars, exitCode, stderr, tmpdir, tmpFiles, total_duration,
                   chunk_duration, start, chunks, segVars, outVars, procCalls,
                   apiCalls, failed, fmtVars>>

(* ------------------------------------------------------------------ *)
(* Step 2, small file: one upload                                      *)
(* ------------------------------------------------------------------ *)
\* transcribe_file on the whole audio.  "transcription.segments or []"
\* turns a missing list into the empty list.
Direct ==
    /\ pc = "direct"
    /\ apiCalls' = apiCalls + 1
    /\ \/ \E resp \in Responses(audioLen) :
            /\ all_segments' = resp
            /\ raw' = <<resp>>
            /\ pc' = "check_empty"
            /\ UNCHANGED <<exitCode, stderr, failed>>
       \/ /\ failed' = TRUE
          /\ Raise("traceback")
          /\ UNCHANGED <<all_segments, raw>>
    /\ UNCHANGED <<envVars, tmpdir, tmpFiles, splitVars, i, outVars, procCalls, fmtVars>>

(* ------------------------------------------------------------------ *)
(* Step 2, large file: chunking                                        *)
(* ------------------------------------------------------------------ *)
RECURSIVE MulDiv(_, _, _)
\* Quotient and remainder of a * b by c, by long multiplication over the
\* base-16 digits of b, so that no intermediate value leaves the range of
\* the checker's integers (a, c < 2^27).
MulDiv(a, b, c) ==
    IF b = 0 THEN [q |-> 0, r |-> 0]
    ELSE LET h == MulDiv(a, b \div 16, c)
             t == 16 * h.r + a * (b % 16)
         IN  [q |-> 16 * h.q + (t \div c), r |-> t % c]

\* int(MAX_FILE_SIZE / (audio_size / total_duration)) in whole seconds,
\* for a size in bytes and a positive duration in ticks: the integer part
\* of MAX_FILE_SIZE * duration / (size * TicksPerSec).
ChunkDuration(size, duration) == MulDiv(MAX_FILE_SIZE, duration, size).q \div TicksPerSec

\* get_duration, the division and os.makedirs.  A duration of zero makes
\* the division raise ZeroDivisionError.
Probe ==
    /\ pc = "probe"
    /\ procCalls' = procCalls + 1
    /\ \/ /\ total_duration' = audioLen
          /\ IF audioLen = 0
             THEN /\ Raise("traceback")
                  /\ UNCHANGED <<chunk_duration, tmpFiles>>
             ELSE /\ chunk_duration' = ChunkDuration(audio_size, audioLen)
                  /\ tmpFiles' = tmpFiles \cup {<<"chunks">>}
                  /\ pc' = "split_probe"
                  /\ UNCHANGED <<exitCode, stderr>>
          /\ UNCHANGED failed
       \/ /\ failed' = TRUE
          /\ Raise("traceback")
          /\ UNCHANGED <<total_duration, chunk_duration, tmpFiles>>
    /\ UNCHANGED <<envVars, tmpdir, audio_size, start, chunks, segVars, outVars,
                   apiCalls, fmtVars>>

\* split_audio, up to the loop: get_duration again, chunks = [], start = 0.
SplitProbe ==
    /\ pc = "split_probe"
    /\ procCalls' = procCalls + 1
    /\ \/ /\ start' = 0 /\ chunks' = <<>>
          /\ pc' = "split_loop"
          /\ UNCHANGED <<exitCode, stderr, failed>>
       \/ /\ failed' = TRUE
          /\ Raise("traceback")
          /\ UNCHANGED <<start, chunks>>
    /\ UNCHANGED <<envVars, tmpdir, tmpFiles, audio_size, total_duration,
                   chunk_duration, segVars, outVars, apiCalls, fmtVars>>

\* One iteration of "while start < total_duration": an ffmpeg run cutting
\* chunk_duration seconds at the cursor, then the cursor advances.
SplitStep ==
    /\ pc = "split_loop"
    /\ start * TicksPerSec < total_duration
    /\ Len(chunks) < MaxChunks
    /\ procCalls' = procCalls + 1
    /\ \/ /\ tmpFiles' = tmpFiles \cup {<<"chunks", Len(chunks)>>}
          /\ chunks' = Append(chunks, [path |-> Len(chunks), offset |-> start])
          /\ start' = start + chunk_duration
          /\ UNCHANGED <<pc, exitCode, stderr, failed>>
       \/ /\ failed' = TRUE
          /\ Raise("traceback")
          /\ \E leaves \in BOOLEAN :
                tmpFiles' = IF leaves THEN tmpFiles \cup {<<"chunks", Len(chunks)>>}
                            ELSE tmpFiles
          /\ UNCHANGED <<start, chunks>>
    /\ UNCHANGED <<envVars, tmpdir, audio_size, total_duration, chunk_duration,
                   segVars, outVars, apiCalls, fmtVars>>

\* The loop condition is false: split_audio returns, all_segments = [].
SplitDone ==
    /\ pc = "split_loop"
    /\ ~(start * TicksPerSec < total_duration)
    /\ pc' = "transcribe"
    /\ i' = 0 /\ all_segments' = <<>>
    /\ UNCHANGED <<envVars, exitCode, stderr, tmpdir, tmpFiles, splitVars, raw,
                   outVars, procCalls, apiCalls, failed, fmtVars>>

\* Length in ticks of the audio in chunk k: ffmpeg cuts chunk_duration
\* seconds at the offset and stops at the end of the stream.
ChunkLen(k) ==
    LET from == chunks[k].offset * TicksPerSec
        want == chunk_duration * TicksPerSec
    IN  IF audioLen - from < want THEN audioLen - from ELSE want

\* A plausible slip: the segments are accumulated as returned.
ShiftNone(segments, offset) == segments

\* Lines 148-150: every segment of a response moved by the chunk's offset
\* (seconds).
Shift(segments, offset) ==
    [k \in 1..Len(segments) |->
        [start |-> segments[k].start + offset * TicksPerSec,
         end |-> segments[k].end + offset * TicksPerSec,
         text |-> segments[k].text]]

\* A plausible slip: a failed upload is swallowed and the loop goes on
\* with the next chunk.
TranscribeChunkCaught ==
    /\ pc = "transcribe"
    /\ i < Len(chunks)
    /\ apiCalls' = apiCalls + 1
    /\ \/ \E resp \in Responses(ChunkLen(i + 1)) :
            /\ all_segments' = all_segments \o Shift(resp, chunks[i + 1].offset)
            /\ raw' = Append(raw, resp)
            /\ UNCHANGED failed
       \/ /\ failed' = TRUE
          /\ raw' = Append(raw, <<>>)
          /\ UNCHANGED all_segments
    /\ i' = i + 1
    /\ UNCHANGED <<pc, exitCode, stderr>>
    /\ UNCHANGED <<envVars, tmpdir, tmpFiles, splitVars, outVars, procCalls, fmtVars>>

\* One iteration of the loop over the chunks: upload, shift, extend.
TranscribeChunk ==
    /\ pc = "transcribe"
    /\ i < Len(chunks)
    /\ apiCalls' = apiCalls + 1
    /\ \/ \E resp \in Responses(ChunkLen(i + 1)) :
            /\ all_segments' = all_segments \o Shift(resp, chunks[i + 1].offset)
            /\ raw' = Append(raw, resp)
            /\ i' = i + 1
            /\ UNCHANGED <<pc, exitCode, stderr, failed>>
       \/ /\ failed' = TRUE
          /\ Raise("traceback")
          /\ UNCHANGED <<i, all_segments, raw>>
    /\ UNCHANGED <<envVars, tmpdir, tmpFiles, splitVars, outVars, procCalls, fmtVars>>

\* The loop over the chunks is exhausted.
ChunksDone ==
    /\ pc = "transcribe"
    /\ i = Len(chunks)
    /\ pc' = "check_empty"
    /\ UNCHANGED <<envVars, exitCode, stderr, tmpdir, tmpFiles, splitVars, segVars,
                   outVars, procCalls, apiCalls, failed, fmtVars>>

(* ------------------------------------------------------------------ *)
(* Steps 3 and 4: the subtitle file                                    *)
(* ------------------------------------------------------------------ *)
\* A plausible slip: the empty list goes on to serialization.
CheckEmptySkipped ==
    /\ pc = "check_empty"
    /\ pc' = "build"
    /\ UNCHANGED <<envVars, exitCode, stderr, tmpdir, tmpFiles, splitVars, segVars,
                   outVars, procCalls, apiCalls, failed, fmtVars>>

\* "if not all_segments": a diagnostic and sys.exit(1), which unwinds
\* through the finally clause.
CheckEmpty ==
    /\ pc = "check_empty"
    /\ IF all_segments = <<>>
       THEN Raise("No segments found in transcription.")
       ELSE /\ pc' = "build" /\ UNCHANGED <<exitCode, stderr>>
    /\ UNCHANGED <<envVars, tmpdir, tmpFiles, splitVars, segVars, outVars,
                   procCalls, apiCalls, failed, fmtVars>>

Newline == <<"\n">>
Arrow == <<" ", "-", "-", ">", " ">>

\* A plausible slip: enumerate without start=1.
SrtBlockFromZero(k, seg) ==
    Digits(k - 1) \o Newline
        \o format_timestamp(seg.start) \o Arrow \o format_timestamp(seg.end) \o Newline
        \o Strip(seg.text) \o Newline

\* f"{i}\n{start} --> {end}\n{text}\n" for the k-th segment, k from 1.
SrtBlock(k, seg) ==
    Digits(k) \o Newline
        \o format_timestamp(seg.start) \o Arrow \o format_timestamp(seg.end) \o Newline
        \o Strip(seg.text) \o Newline

\* Step 3: one block per segment, joined by a newline.
BuildSrt ==
    /\ pc = "build"
    /\ srt_content' = Join([k \in 1..Len(all_segments) |-> SrtBlock(k, all_segments[k])],
                           Newline)
    /\ pc' = "write"
    /\ UNCHANGED <<envVars, exitCode, stderr, tmpdir, tmpFiles, splitVars, segVars,
                   outFile, outContent, procCalls, apiCalls, failed, fmtVars>>

\* Step 4: open the output file and write the content.  open may raise
\* (no file appears), write may raise (the file exists, truncated), or
\* both succeed and the function returns.
WriteOutput ==
    /\ pc = "write"
    /\ \E result \in {"ok", "open fails", "write fails"} :
        /\ outFile' = CASE result = "ok" -> "written"
                        [] result = "open fails" -> outFile
                        [] OTHER -> "partial"
        /\ outContent' = IF result = "ok" THEN srt_content ELSE outContent
        /\ IF result = "ok"
           THEN /\ pc' = "finally" /\ exitCode' = 0 /\ UNCHANGED stderr
           ELSE Raise("traceback")
    /\ UNCHANGED <<envVars, tmpdir, tmpFiles, splitVars, segVars, srt_content,
                   procCalls, apiCalls, failed, fmtVars>>

\* finally: shutil.rmtree(tmpdir, ignore_errors=True), then the pending
\* return or exception ends the process.
Cleanup ==
    /\ pc = "finally"
    /\ tmpdir' = "removed"
    /\ tmpFiles' = {}
    /\ pc' = "exit"
    /\ UNCHANGED <<envVars, exitCode, stderr, splitVars, segVars, outVars,
                   procCalls, apiCalls, failed, fmtVars>>

Terminal == pc = "exit"

Next ==
    \/ CheckInput
    \/ CheckTools
    \/ Setup
    \/ Normalize
    \/ Measure
    \/ Direct
    \/ Probe
    \/ SplitProbe
    \/ SplitStep
    \/ SplitDone
    \/ TranscribeChunk
    \/ ChunksDone
    \/ CheckEmpty
    \/ BuildSrt
    \/ WriteOutput
    \/ Cleanup

Spec == Init /\ [][Next]_vars

\* The process is single-threaded and every call is assumed to return:
\* whenever a step is possible, a step is taken.
FairSpec == Init /\ [][Next]_vars /\ WF_vars(Next)

(* ------------------------------------------------------------------ *)
(* format_timestamp on its own                                         *)
(* ------------------------------------------------------------------ *)
InitFmt ==
    /\ pc = "format"
    /\ inputExists = TRUE /\ toolsPresent = TRUE /\ isAudio = TRUE
    /\ audioBytes = MAX_FILE_SIZE /\ audioLen = 0
    /\ Idle
    /\ seconds \in FmtInputs
    /\ timestamp = <<>>

FormatCall ==
    /\ pc = "format"
    /\ timestamp' = format_timestamp(seconds)
    /\ pc' = "formatted"
    /\ UNCHANGED <<envVars, exitCode, stderr, tmpdir, tmpFiles, splitVars, segVars,
                   outVars, procCalls, apiCalls, failed, seconds>>

NextFmt == FormatCall

SpecFmt == InitFmt /\ [][NextFmt]_vars

(* ------------------------------------------------------------------ *)
(* Reading strings back                                                *)
(* ------------------------------------------------------------------ *)
IsDigit(c) == \E d \in 1..10 : DigitChar[d] = c
DigitVal(c) == (CHOOSE d \in 1..10 : DigitChar[d] = c) - 1

RECURSIVE ParseNat(_)
\* The number a non-empty string of digits denotes.
ParseNat(s) ==
    IF Len(s) = 1 THEN DigitVal(s[1])
    ELSE 10 * ParseNat(SubSeq(s, 1, Len(s) - 1)) + DigitVal(s[Len(s)])

IsNumeral(s) == s # <<>> /\ \A k \in 1..Len(s) : IsDigit(s[k])

RECURSIVE Split(_, _)
\* The pieces of s between the occurrences of the character c.
Split(s, c) ==
    IF \A k \in 1..Len(s) : s[k] # c THEN <<s>>
    ELSE LET p == CHOOSE k \in 1..Len(s) : s[k] = c /\ \A j \in 1..(k - 1) : s[j] # c
         IN  <<SubSeq(s, 1, p - 1)>> \o Split(SubSeq(s, p + 1, Len(s)), c)

\* The fields of a timestamp string: <<HH, MM, SS, mmm>>, or <<>> when
\* the string has not that shape.
TsFields(ts) ==
    LET byColon == Split(ts, ":")
    IN  IF Len(byColon) # 3 THEN <<>>
        ELSE LET byComma == Split(byColon[3], ",")
             IN  IF Len(byComma) # 2 THEN <<>>
                 ELSE <<byColon[1], byColon[2], byComma[1], byComma[2]>>

(* ------------------------------------------------------------------ *)
(* C5, C6: format_timestamp (checked under SpecFmt)                    *)
(* ------------------------------------------------------------------ *)
Formatted == pc = "formatted"

\* C5: for every non-negative time value the result is a zero-padded
\* HH:MM:SS,mmm string: hours of at least two digits, minutes and seconds
\* of two digits in 0..59, milliseconds of exactly three digits, and the
\* fields together denote the input rounded to the millisecond.
TimestampWellFormed ==
    Formatted =>
        LET f == TsFields(timestamp)
        IN  /\ Len(f) = 4
            /\ \A k \in 1..4 : IsNumeral(f[k])
            /\ Len(f[1]) >= 2
            /\ Len(f[2]) = 2 /\ ParseNat(f[2]) \in 0..59
            /\ Len(f[3]) = 2 /\ ParseNat(f[3]) \in 0..59
            /\ Len(f[4]) = 3 /\ ParseNat(f[4]) \in 0..999
            /\ LET ms == ((ParseNat(f[1]) * 60 + ParseNat(f[2])) * 60 + ParseNat(f[3])) * 1000
                            + ParseNat(f[4])
                   err == ms * TicksPerMs - seconds
               IN  2 * err <= TicksPerMs /\ 2 * err >= -TicksPerMs

\* The input lies exactly halfway between two whole milliseconds.
Halfway == 2 * (seconds % TicksPerMs) = TicksPerMs
\* The whole millisecond below the input's fractional part.
LowerMs == (seconds % TicksPerSec) \div TicksPerMs

\* C6 as stated: at a halfway input the milliseconds field is the upper
\* of the two neighbouring whole milliseconds.
RoundsHalfUp ==
    (Formatted /\ Halfway) => ParseNat(TsFields(timestamp)[4]) = LowerMs + 1

\* C6 amended: at a halfway input the milliseconds field is the even one
\* of the two neighbouring whole milliseconds.
RoundsHalfEven ==
    (Formatted /\ Halfway) =>
        LET ms == ParseNat(TsFields(timestamp)[4])
        IN  ms \in {LowerMs, LowerMs + 1} /\ ms % 2 = 0

\* A halfway input (62.5 ms past the second) whose tie went down.
HalfwayRoundedDown ==
    /\ Formatted /\ Halfway
    /\ seconds % TicksPerSec = 250
    /\ ParseNat(TsFields(timestamp)[4]) = LowerMs

(* ------------------------------------------------------------------ *)
(* C1: the scratch directory                                           *)
(* ------------------------------------------------------------------ *)
\* C1: in every terminal state the scratch directory, the extracted audio
\* and all chunk files no longer exist.
ScratchRemoved == Terminal => (tmpdir # "exists" /\ tmpFiles = {})

\* A run that wrote chunk files, then failed, and has ended.
EndedAfterFailureWithChunks ==
    Terminal /\ failed /\ Len(chunks) >= 1 /\ tmpdir = "removed"

(* ------------------------------------------------------------------ *)
(* C2: the empty result                                                *)
(* ------------------------------------------------------------------ *)
\* C2: with an empty segment list serialization is never reached, no
\* output file is written and the run ends with a non-zero exit code.
EmptyResultFatal ==
    all_segments = <<>> =>
        /\ pc \notin {"build", "write"}
        /\ srt_content = <<>>
        /\ outFile = "absent"
        /\ Terminal => exitCode = 1

\* Every chunk of a split run was transcribed to nothing, and the run ended.
EndedOnEmptyChunks ==
    /\ Terminal /\ ~failed
    /\ Len(chunks) >= 2 /\ Len(raw) = Len(chunks)
    /\ all_segments = <<>>

(* ------------------------------------------------------------------ *)
(* C3: chunk offsets                                                   *)
(* ------------------------------------------------------------------ *)
\* The loop of split_audio has run to its end.
SplitReturned == chunks # <<>> /\ ~(start * TicksPerSec < total_duration)

\* C3: the chunk offsets are 0, C, 2C, ... in list order, strictly
\* increasing, the last one below the total duration D, and once
\* split_audio has returned their number is ceil(D / C).
ChunkOffsets ==
    /\ \A k \in 1..Len(chunks) : chunks[k].offset = (k - 1) * chunk_duration
    /\ \A k \in 1..(Len(chunks) - 1) : chunks[k].offset < chunks[k + 1].offset
    /\ chunks # <<>> => chunks[Len(chunks)].offset * TicksPerSec < total_duration
    /\ SplitReturned =>
        /\ (Len(chunks) - 1) * chunk_duration * TicksPerSec < total_duration
        /\ Len(chunks) * chunk_duration * TicksPerSec >= total_duration

(* ------------------------------------------------------------------ *)
(* C4: offset correction                                               *)
(* ------------------------------------------------------------------ *)
RECURSIVE RawCount(_)
\* Number of segments in the first k responses.
RawCount(k) == IF k = 0 THEN 0 ELSE RawCount(k - 1) + Len(raw[k])

OnSplitPath == chunks # <<>> /\ Len(raw) >= 1

\* C4: on the split path the global list holds, in order, every segment of
\* every response so far, moved by the offset of its own chunk; the chunks
\* transcribed so far have ascending offsets; the global list is sorted by
\* start.
OffsetCorrection ==
    OnSplitPath =>
        /\ Len(raw) <= Len(chunks)
        /\ Len(all_segments) = RawCount(Len(raw))
        /\ \A k \in 1..Len(raw) : \A m \in 1..Len(raw[k]) :
            all_segments[RawCount(k - 1) + m] =
                [start |-> raw[k][m].start + chunks[k].offset * TicksPerSec,
                 end |-> raw[k][m].end + chunks[k].offset * TicksPerSec,
                 text |-> raw[k][m].text]
        /\ \A k \in 1..(Len(raw) - 1) : chunks[k].offset < chunks[k + 1].offset
        /\ \A j \in 1..(Len(all_segments) - 1) :
            all_segments[j].start <= all_segments[j + 1].start

\* A split run that collected segments from at least two chunks, the later
\* ones at a positive offset, and wrote its output.
SplitRunWritten ==
    /\ outFile = "written"
    /\ Len(chunks) >= 2
    /\ \A k \in 1..Len(raw) : raw[k] # <<>>
    /\ all_segments[Len(all_segments)].start > 0

(* ------------------------------------------------------------------ *)
(* C7: checks made before any work                                     *)
(* ------------------------------------------------------------------ *)
\* C7: with the input file or an external tool missing, the run never
\* creates the scratch directory, never invokes an external process,
\* never calls the service, never writes output, and ends with code 1.
EarlyChecks ==
    (~inputExists \/ ~toolsPresent) =>
        /\ tmpdir = "none" /\ tmpFiles = {}
        /\ procCalls = 0 /\ apiCalls = 0
        /\ outFile = "absent"
        /\ Terminal => exitCode = 1

\* The input exists, a tool is missing, and the run has ended.
EndedOnMissingTool == Terminal /\ inputExists /\ ~toolsPresent

(* ------------------------------------------------------------------ *)
(* C8: termination (checked under FairSpec)                            *)
(* ------------------------------------------------------------------ *)
\* C8: every run eventually reaches a terminal state; in particular the
\* splitting loop terminates: each of its iterations brings the cursor
\* strictly closer to the total duration.  (An iteration that leaves the
\* cursor where it was is followed by the same iteration again, for as
\* long as the ffmpeg calls succeed.)
RunTerminates ==
    /\ <>Terminal
    /\ [][(pc = "split_loop" /\ pc' = "split_loop") => start' > start]_vars

(* ------------------------------------------------------------------ *)
(* C9: failures of external calls                                      *)
(* ------------------------------------------------------------------ *)
\* C9: once an ffmpeg, ffprobe or transcription call has failed, no
\* further call of either kind is made, nothing is serialized, no output
\* file is written, and the run ends with a non-zero exit code.
FailureIsFatal ==
    /\ [](failed =>
            /\ pc \in {"finally", "exit"}
            /\ exitCode = 1
            /\ srt_content = <<>>
            /\ outFile = "absent")
    /\ [][failed => (procCalls' = procCalls /\ apiCalls' = apiCalls
                        /\ UNCHANGED outVars)]_vars

\* A run that had collected segments from a chunk when a later call failed.
EndedAfterFailureWithSegments ==
    Terminal /\ failed /\ all_segments # <<>> /\ Len(raw) < Len(chunks)

(* ------------------------------------------------------------------ *)
(* C10: the subtitle entries                                           *)
(* ------------------------------------------------------------------ *)
\* The lines of the output file; the text ends with a newline, so the
\* last piece is empty.
OutLines == Split(outContent, "\n")

\* C10: a written output file holds one entry per segment of the global
\* list, in list order: entry k is the index k, the two formatted times
\* and the stripped text of segment k, followed by an empty line; there is
\* at least one entry.
OutputEntries ==
    outFile = "written" =>
        LET n == Len(all_segments)
        IN  /\ n >= 1
            /\ Len(OutLines) = 4 * n
            /\ \A k \in 1..n :
                /\ IsNumeral(OutLines[4 * k - 3])
                /\ ParseNat(OutLines[4 * k - 3]) = k
                /\ OutLines[4 * k - 2] =
                       format_timestamp(all_segments[k].start) \o Arrow
                           \o format_timestamp(all_segments[k].end)
                /\ OutLines[4 * k - 1] = Strip(all_segments[k].text)
                /\ OutLines[4 * k] = <<>>

\* An output file of at least three entries has been written.
WroteThreeEntries == outFile = "written" /\ Len(all_segments) >= 3

====
